---- MODULE Spec2Model ----
(***************************************************************************)
(* Model of src/app.py: the ClaudeChatbot Streamlit application.           *)
(*                                                                         *)
(* The program is a script, main(), that the Streamlit script runner       *)
(* executes from the top once per UI event (a "run").  The state that      *)
(* survives from run to run is st.session_state; the widgets' values live  *)
(* in the browser and reach the script with the rerun request.             *)
(*                                                                         *)
(* Execution model of the runner, as far as the script depends on it:      *)
(*   - one script thread per session; a rerun request that arrives while   *)
(*     the script runs is queued (pending) and honoured at the script's    *)
(*     next st.<element> call, which raises the runner's rerun control     *)
(*     exception (a BaseException, so `except Exception` lets it through)  *)
(*     and starts the next run, or at the script's end;                    *)
(*   - st.rerun() ends the run at once and starts a run with no trigger;   *)
(*   - buttons and st.chat_input are triggers: they are set only in the    *)
(*     run their event started;                                            *)
(*   - reads and writes of st.session_state are not st.<element> calls.    *)
(*                                                                         *)
(* Texts are sequences of one-character strings.  Sampling parameters that *)
(* the script holds as floats with step 0.1 are held in tenths.            *)
(***************************************************************************)
EXTENDS Integers, Sequences, FiniteSets, TLC

VARIABLES
    session_state,  \* st.session_state: messages, api_key, parameters, is_loading
    widgets,        \* the values of the sidebar widgets in the browser
    pending,        \* the rerun request the browser has sent and no run has taken
    trigger,        \* the trigger (button, chat input) of the current run
    pc,             \* the position of the script thread
    outstanding,    \* completion requests issued and not yet resolved
    notice,         \* the st.error / st.success element the current run has shown
    files,          \* the files save_chat_history has written, by timestamp
    now,            \* the wall clock, in ticks
    cycle_base,     \* history: Len(messages) just before the last accepted submit
    artifacts,      \* the code blocks the current run has rendered, per Turn
    sample          \* history: the (language, code) a fenced Turn was built from

vars == <<session_state, widgets, pending, trigger, pc, outstanding, notice, files, now, cycle_base, artifacts, sample>>

----------------------------------------------------------------------------
(* Bounds of the model *)

MaxTurns == 2

MaxClock == 3

\* clock ticks in one second
TicksPerSecond == 2
\* the longest message text of the extractor's specification, in tokens
MaxTokens == 5
\* the longest code text a fence is built from, in characters
MaxCode == 3

----------------------------------------------------------------------------
(* Values *)

Whitespace == {" ", "\n"}

Keys == {"", "sk"}

Prompts == {<<>>, <<" ">>, <<"h">>}

Replies == {<<"r">>}

\* positions of the three sampling widgets the user moves between
SamplingChoices ==
    {[temperature |-> 7, max_tokens |-> 4096, top_p |-> 7],
     [temperature |-> 2, max_tokens |-> 1, top_p |-> 10]}

system_prompt == "You are an IT administration expert"

default_params ==
    [model |-> "claude-3-7-sonnet-20250219",
     temperature |-> 7,
     max_tokens |-> 4096,
     top_p |-> 7,
     extended_thinking |-> FALSE]

NoEvent == [kind |-> "none", prompt |-> <<>>]

NoSample == [language |-> <<>>, code |-> <<>>, built |-> FALSE]

----------------------------------------------------------------------------
(* st.session_state *)

SessionKeys == {"messages", "api_key", "parameters", "is_loading"}

SessionDefault(k) ==
    CASE k = "messages"   -> <<>>
      [] k = "api_key"    -> ""
      [] k = "parameters" -> default_params
      [] k = "is_loading" -> FALSE

\* mutant: every run starts from the defaults
initialize_session_state_resets(ss) ==
    [k \in SessionKeys |-> SessionDefault(k)]

initialize_session_state(ss) ==
    [k \in (DOMAIN ss) \cup SessionKeys |->
        IF k \in DOMAIN ss THEN ss[k] ELSE SessionDefault(k)]

messages == session_state.messages

api_key == session_state.api_key

parameters == session_state.parameters

is_loading == session_state.is_loading

Turn(role, content) == [role |-> role, content |-> content]

----------------------------------------------------------------------------
(* Pure helpers of the script *)

\* Python truthiness of the value st.chat_input returns
Truthy(prompt) == prompt # <<>>

IsBlank(text) == \A i \in 1..Len(text) : text[i] \in Whitespace

\* process_response: the messages list of the request
request_messages(ms) ==
    [i \in 1..Len(ms) |-> [role |-> ms[i].role, content |-> ms[i].content]]

\* mutant: the extended_thinking field is always passed
message_params_always_field(params, ms) ==
    [model |-> params.model,
     temperature |-> params.temperature,
     max_tokens |-> params.max_tokens,
     system |-> system_prompt,
     messages |-> request_messages(ms),
     extended_thinking |-> params.extended_thinking]

\* process_response: the keyword arguments of client.messages.create
message_params(params, ms) ==
    LET base == [model |-> params.model,
                 temperature |-> params.temperature,
                 max_tokens |-> params.max_tokens,
                 system |-> system_prompt,
                 messages |-> request_messages(ms)]
    IN  IF params.extended_thinking
        THEN base @@ [extended_thinking |-> TRUE]
        ELSE base

----------------------------------------------------------------------------
(* extract_code_blocks: re.finditer over the pattern                      *)
(*   three backticks, (\w+)?, newline, (.*?), three backticks; re.DOTALL   *)

\* the backtick character (the module's strings cannot hold one)
Backtick == "BACKTICK"

\* the characters \w matches among those the model's texts are made of
WordChars == {"a", "b", "c", "e", "h", "l", "o", "p", "r", "s", "t", "w"}

\* mutant: two backticks open and close a fence
FenceAt_two_backticks(text, i) ==
    /\ i + 1 <= Len(text)
    /\ text[i] = Backtick
    /\ text[i + 1] = Backtick

\* whether the literal three backticks of the pattern matches at position i
FenceAt(text, i) ==
    /\ i + 2 <= Len(text)
    /\ text[i] = Backtick
    /\ text[i + 1] = Backtick
    /\ text[i + 2] = Backtick

\* (\w+)?: the length of the longest run of word characters from position i
RECURSIVE WordRun(_, _)
WordRun(text, i) ==
    IF i <= Len(text) /\ text[i] \in WordChars
    THEN 1 + WordRun(text, i + 1)
    ELSE 0

\* mutant: an opening with no closing marker takes the rest of the text
ClosingAt_or_end(text, b) ==
    LET S == {j \in b..Len(text) : FenceAt(text, j)}
    IN  IF S = {} THEN Len(text) + 1 ELSE CHOOSE j \in S : \A k \in S : j <= k

\* (.*?) and the closing marker: the first position from b on where it matches; 0 when there is none
ClosingAt(text, b) ==
    LET S == {j \in b..Len(text) : FenceAt(text, j)}
    IN  IF S = {} THEN 0 ELSE CHOOSE j \in S : \A k \in S : j <= k

\* str.strip()
RECURSIVE strip_left(_)
strip_left(text) ==
    IF text # <<>> /\ Head(text) \in Whitespace THEN strip_left(Tail(text)) ELSE text

RECURSIVE strip_right(_)
strip_right(text) ==
    IF text # <<>> /\ text[Len(text)] \in Whitespace
    THEN strip_right(SubSeq(text, 1, Len(text) - 1))
    ELSE text

\* mutant: only leading whitespace is removed
strip_leading_only(text) == strip_left(text)

strip(text) == strip_right(strip_left(text))

NoMatch == [found |-> FALSE, language |-> <<>>, code |-> <<>>, end |-> 0]

\* the match of the pattern that starts at position s, if there is one:
\* group 1 takes the whole word run (any shorter choice is not followed by \n),
\* group 2 is the shortest body that the closing marker follows
MatchAt(text, s) ==
    IF ~FenceAt(text, s) THEN NoMatch
    ELSE LET h == s + 3 + WordRun(text, s + 3) IN
         IF ~(h <= Len(text) /\ text[h] = "\n") THEN NoMatch
         ELSE LET c == ClosingAt(text, h + 1) IN
              IF c = 0 THEN NoMatch
              ELSE [found |-> TRUE,
                    language |-> SubSeq(text, s + 3, h - 1),
                    code |-> strip(SubSeq(text, h + 1, c - 1)),
                    end |-> c + 3]

\* finditer: the leftmost match from pos on, then on from its end
RECURSIVE FindBlocks(_, _)
FindBlocks(text, pos) ==
    IF pos > Len(text) THEN <<>>
    ELSE LET m == MatchAt(text, pos) IN
         IF m.found
         THEN <<[language |-> m.language, code |-> m.code]>> \o FindBlocks(text, m.end)
         ELSE FindBlocks(text, pos + 1)

extract_code_blocks(text) == FindBlocks(text, 1)

\* the message texts the extractor is run on: every sequence of at most
\* MaxTokens tokens, a token being a marker, a backtick or two, or a character
Fence == <<Backtick, Backtick, Backtick>>

Tokens == {Fence, <<Backtick, Backtick>>, <<Backtick>>, <<"\n">>, <<" ">>, <<"a">>, <<"-">>}

RECURSIVE TextsUpTo(_)
TextsUpTo(n) ==
    IF n = 0 THEN {<<>>}
    ELSE LET shorter == TextsUpTo(n - 1)
         IN  shorter \cup {t \o k : t \in shorter, k \in Tokens}

RawTexts == TextsUpTo(MaxTokens)

\* the language tags of the fences: none, powershell, batch
Languages == {<<>>,
              <<"p", "o", "w", "e", "r", "s", "h", "e", "l", "l">>,
              <<"b", "a", "t", "c", "h">>}

\* tags of one line that hold a character \w does not match
MalformedTags == {<<"-">>, <<"a", "-">>, <<" ">>}

CodeChars == {Backtick, "\n", " ", "a"}

HasTriple(text) ==
    \E i \in 1..Len(text) :
        i + 2 <= Len(text) /\ \A d \in 0..2 : text[i + d] = Backtick

\* the code texts of the fences: no three backticks in a row
Codes ==
    {c \in UNION {[1..n -> CodeChars] : n \in 0..MaxCode} : ~HasTriple(c)}

\* a fenced segment: opening marker, tag, newline, body, closing marker
fence(language, code) == Fence \o language \o <<"\n">> \o code \o Fence

Samples ==
    {[language |-> l, code |-> c, built |-> TRUE] :
        l \in Languages \cup MalformedTags, c \in Codes}

----------------------------------------------------------------------------
(* Initial state: the first run of a new session, after                    *)
(* initialize_session_state, about to build the interface.                 *)

Init ==
    /\ session_state = initialize_session_state(<<>>)
    /\ widgets = [api_key |-> "",
                  temperature |-> default_params.temperature,
                  max_tokens |-> default_params.max_tokens,
                  top_p |-> default_params.top_p,
                  extended_thinking |-> default_params.extended_thinking]
    /\ pending = NoEvent
    /\ trigger = NoEvent
    /\ pc = "sidebar"
    /\ outstanding = <<>>
    /\ notice = "none"
    /\ files = <<>>
    /\ now = 0
    /\ cycle_base = 0
    /\ artifacts = <<>>
    /\ sample = NoSample

----------------------------------------------------------------------------
(* The browser: UI events.  Each sends one rerun request.                  *)

EditApiKey ==
    /\ pending = NoEvent
    /\ \E k \in Keys \ {widgets.api_key} :
          widgets' = [widgets EXCEPT !.api_key = k]
    /\ pending' = [kind |-> "widget", prompt |-> <<>>]
    /\ UNCHANGED <<session_state, trigger, pc, outstanding, notice, files, now, cycle_base, artifacts, sample>>

ChangeParameters ==
    /\ pending = NoEvent
    /\ \E c \in SamplingChoices, e \in BOOLEAN :
          /\ widgets' = [widgets EXCEPT !.temperature = c.temperature,
                                        !.max_tokens = c.max_tokens,
                                        !.top_p = c.top_p,
                                        !.extended_thinking = e]
          /\ widgets' # widgets
    /\ pending' = [kind |-> "widget", prompt |-> <<>>]
    /\ UNCHANGED <<session_state, trigger, pc, outstanding, notice, files, now, cycle_base, artifacts, sample>>

PressSave ==
    /\ pending = NoEvent
    /\ pending' = [kind |-> "save", prompt |-> <<>>]
    /\ UNCHANGED <<session_state, widgets, trigger, pc, outstanding, notice, files, now, cycle_base, artifacts, sample>>

PressClear ==
    /\ pending = NoEvent
    /\ pending' = [kind |-> "clear", prompt |-> <<>>]
    /\ UNCHANGED <<session_state, widgets, trigger, pc, outstanding, notice, files, now, cycle_base, artifacts, sample>>

SubmitChat ==
    /\ pending = NoEvent
    /\ Len(messages) < MaxTurns
    /\ \E t \in Prompts : pending' = [kind |-> "chat", prompt |-> t]
    /\ UNCHANGED <<session_state, widgets, trigger, pc, outstanding, notice, files, now, cycle_base, artifacts, sample>>

Tick ==
    /\ now < MaxClock
    /\ now' = now + 1
    /\ UNCHANGED <<session_state, widgets, pending, trigger, pc, outstanding, notice, files, cycle_base, artifacts, sample>>

----------------------------------------------------------------------------
(* The script runner *)

\* positions whose next statement is an st.<element> call
YieldPoints ==
    {"sidebar", "save_button", "clear_button", "render", "chat_input",
     "submit_echo", "except"}

\* main(): a run starts: ClaudeChatbot(), initialize_session_state()
BeginRun(trig) ==
    /\ session_state' = initialize_session_state(session_state)
    /\ trigger' = trig
    /\ pc' = "sidebar"
    /\ notice' = "none"
    /\ artifacts' = <<>>

ScriptStart ==
    /\ pc = "idle"
    /\ pending # NoEvent
    /\ BeginRun(pending)
    /\ pending' = NoEvent
    /\ UNCHANGED <<widgets, outstanding, files, now, cycle_base, sample>>

Interrupt ==
    /\ pc \in YieldPoints
    /\ pending # NoEvent
    /\ BeginRun(pending)
    /\ pending' = NoEvent
    /\ UNCHANGED <<widgets, outstanding, files, now, cycle_base, sample>>

----------------------------------------------------------------------------
(* create_chat_interface *)

\* the sidebar's inputs: the key field and the parameter widgets
SidebarState(ss, w) ==
    [ss EXCEPT !.api_key = w.api_key,
               !.parameters = [@ EXCEPT !.temperature = w.temperature,
                                        !.max_tokens = w.max_tokens,
                                        !.top_p = w.top_p,
                                        !.extended_thinking = w.extended_thinking]]

Sidebar ==
    /\ pc = "sidebar"
    /\ pending = NoEvent
    /\ session_state' = SidebarState(session_state, widgets)
    /\ pc' = "save_button"
    /\ UNCHANGED <<widgets, pending, trigger, outstanding, notice, files, now, cycle_base, artifacts, sample>>

\* strftime("%Y%m%d_%H%M%S"): the clock truncated to the second
Timestamp(t) == t \div TicksPerSecond

\* json.dump(messages): the Turns as records of role and content
ExportContent(ms) ==
    [i \in 1..Len(ms) |-> [role |-> ms[i].role, content |-> ms[i].content]]

\* mutant: the file's name is taken from the clock without truncation
save_chat_history_per_tick(fs, t, ms) ==
    [n \in (DOMAIN fs) \cup {t} |-> IF n = t THEN ExportContent(ms) ELSE fs[n]]

\* save_chat_history: open(filename, 'w') under the timestamp's name
save_chat_history(fs, t, ms) ==
    [n \in (DOMAIN fs) \cup {Timestamp(t)} |->
        IF n = Timestamp(t) THEN ExportContent(ms) ELSE fs[n]]

\* mutant: the export holds the credential next to the Turns
SaveButton_writes_key ==
    /\ pc = "save_button"
    /\ pending = NoEvent
    /\ IF trigger.kind = "save"
       THEN /\ files' = save_chat_history(files, now,
                            Append(messages, Turn("api_key", api_key)))
            /\ notice' = "saved"
       ELSE UNCHANGED <<files, notice>>
    /\ pc' = "clear_button"
    /\ UNCHANGED <<session_state, widgets, pending, trigger, outstanding, now, cycle_base, artifacts, sample>>

SaveButton ==
    /\ pc = "save_button"
    /\ pending = NoEvent
    /\ IF trigger.kind = "save"
       THEN /\ files' = save_chat_history(files, now, messages)
            /\ notice' = "saved"
       ELSE UNCHANGED <<files, notice>>
    /\ pc' = "clear_button"
    /\ UNCHANGED <<session_state, widgets, pending, trigger, outstanding, now, cycle_base, artifacts, sample>>

\* mutant: Clear Chat resets the parameters with the conversation
ClearState_resets_parameters(ss) ==
    [ss EXCEPT !.messages = <<>>, !.parameters = default_params]

\* the Clear Chat handler's assignment
ClearState(ss) == [ss EXCEPT !.messages = <<>>]

ClearButton ==
    /\ pc = "clear_button"
    /\ pending = NoEvent
    /\ IF trigger.kind = "clear"
       THEN /\ session_state' = ClearState(session_state)
            /\ pc' = "clear_rerun"
       ELSE /\ pc' = "render"
            /\ UNCHANGED session_state
    /\ UNCHANGED <<widgets, pending, trigger, outstanding, notice, files, now, cycle_base, artifacts, sample>>

ClearRerun ==
    /\ pc = "clear_rerun"
    /\ BeginRun(NoEvent)
    /\ UNCHANGED <<widgets, pending, outstanding, files, now, cycle_base, sample>>

\* the chat area: the code blocks shown under each Turn
RenderedBlocks(ms) == [i \in 1..Len(ms) |-> extract_code_blocks(ms[i].content)]

Render ==
    /\ pc = "render"
    /\ pending = NoEvent
    /\ artifacts' = RenderedBlocks(messages)
    /\ pc' = "chat_input"
    /\ UNCHANGED <<session_state, widgets, pending, trigger, outstanding, notice, files, now, cycle_base, sample>>

\* the value st.chat_input returns in this run
ChatPrompt(trig) == IF trig.kind = "chat" THEN trig.prompt ELSE <<>>

\* whether the chat-input handler takes the prompt
AcceptsPrompt(prompt) == Truthy(prompt)

\* mutant: the credential check is missing
HasCredential_unchecked(key) == TRUE

\* whether the handler's credential check passes
HasCredential(key) == key # ""

ChatInput ==
    /\ pc = "chat_input"
    /\ pending = NoEvent
    /\ LET prompt == ChatPrompt(trigger) IN
       IF AcceptsPrompt(prompt)
       THEN IF ~HasCredential(api_key)
            THEN /\ notice' = "need_key"
                 /\ pc' = "main"
                 /\ UNCHANGED <<session_state, cycle_base>>
            ELSE /\ session_state' =
                       [session_state EXCEPT !.messages = Append(@, Turn("user", prompt))]
                 /\ cycle_base' = Len(messages)
                 /\ pc' = "submit_echo"
                 /\ UNCHANGED notice
       ELSE /\ pc' = "main"
            /\ UNCHANGED <<session_state, notice, cycle_base>>
    /\ UNCHANGED <<widgets, pending, trigger, outstanding, files, now, artifacts, sample>>

SetLoading ==
    /\ pc = "submit_echo"
    /\ pending = NoEvent
    /\ session_state' = [session_state EXCEPT !.is_loading = TRUE]
    /\ pc' = "submit_rerun"
    /\ UNCHANGED <<widgets, pending, trigger, outstanding, notice, files, now, cycle_base, artifacts, sample>>

SubmitRerun ==
    /\ pc = "submit_rerun"
    /\ BeginRun(NoEvent)
    /\ UNCHANGED <<widgets, pending, outstanding, files, now, cycle_base, sample>>

----------------------------------------------------------------------------
(* main after create_chat_interface returned, and process_response *)

\* the request process_response issues: the client's key and the call's arguments
CompletionRequest(ss) ==
    [api_key |-> ss.api_key, params |-> message_params(ss.parameters, ss.messages)]

Main ==
    /\ pc = "main"
    /\ IF is_loading
       THEN /\ outstanding' = Append(outstanding, CompletionRequest(session_state))
            /\ pc' = "calling"
       ELSE /\ pc' = "idle"
            /\ UNCHANGED outstanding
    /\ UNCHANGED <<session_state, widgets, pending, trigger, notice, files, now, cycle_base, artifacts, sample>>

\* mutant: the reply is dropped
SucceededState_no_turn(ss, reply) == [ss EXCEPT !.is_loading = FALSE]

\* mutant: the reply replaces the conversation
SucceededState_replaces(ss, reply) ==
    [ss EXCEPT !.messages = <<Turn("assistant", reply)>>,
               !.is_loading = FALSE]

\* the try block after the call returned
SucceededState(ss, reply) ==
    [ss EXCEPT !.messages = Append(@, Turn("assistant", reply)),
               !.is_loading = FALSE]

CompletionSucceeded ==
    /\ pc = "calling"
    /\ \E reply \in Replies :
          session_state' = SucceededState(session_state, reply)
    /\ outstanding' = Tail(outstanding)
    /\ pc' = "idle"
    /\ UNCHANGED <<widgets, pending, trigger, notice, files, now, cycle_base, artifacts, sample>>

CompletionFailed ==
    /\ pc = "calling"
    /\ outstanding' = Tail(outstanding)
    /\ pc' = "except"
    /\ UNCHANGED <<session_state, widgets, pending, trigger, notice, files, now, cycle_base, artifacts, sample>>

\* the except block: st.error, then the reset
ExceptState(ss) == [ss EXCEPT !.is_loading = FALSE]

ExceptHandler ==
    /\ pc = "except"
    /\ pending = NoEvent
    /\ notice' = "api_error"
    /\ session_state' = ExceptState(session_state)
    /\ pc' = "idle"
    /\ UNCHANGED <<widgets, pending, trigger, outstanding, files, now, cycle_base, artifacts, sample>>

----------------------------------------------------------------------------

\* The session machine: the script and every event that reaches session_state.
Next ==
    \/ EditApiKey
    \/ ChangeParameters
    \/ PressClear
    \/ SubmitChat
    \/ ScriptStart
    \/ Interrupt
    \/ Sidebar
    \/ SaveButton
    \/ ClearButton
    \/ ClearRerun
    \/ Render
    \/ ChatInput
    \/ SetLoading
    \/ SubmitRerun
    \/ Main
    \/ CompletionSucceeded
    \/ CompletionFailed
    \/ ExceptHandler

Spec == Init /\ [][Next]_vars

\* The export: the script with the Save Chat History button and the clock,
\* in a session whose conversation is not cleared.
NextExport ==
    \/ EditApiKey
    \/ PressSave
    \/ SubmitChat
    \/ Tick
    \/ ScriptStart
    \/ Interrupt
    \/ Sidebar
    \/ SaveButton
    \/ ClearButton
    \/ Render
    \/ ChatInput
    \/ SetLoading
    \/ SubmitRerun
    \/ Main
    \/ CompletionSucceeded
    \/ CompletionFailed
    \/ ExceptHandler

SpecExport == Init /\ [][NextExport]_vars

\* The extractor on its own: the run after a submission, about to render the
\* one user Turn, whose text is any of RawTexts or a fence built from a sample.
InitExtract ==
    /\ \/ /\ sample = NoSample
          /\ \E text \in RawTexts :
                session_state = [initialize_session_state(<<>>) EXCEPT
                                    !.messages = <<Turn("user", text)>>,
                                    !.api_key = "sk",
                                    !.is_loading = TRUE]
       \/ /\ sample \in Samples
          /\ session_state = [initialize_session_state(<<>>) EXCEPT
                                  !.messages = <<Turn("user", fence(sample.language, sample.code))>>,
                                  !.api_key = "sk",
                                  !.is_loading = TRUE]
    /\ widgets = [api_key |-> "sk",
                  temperature |-> default_params.temperature,
                  max_tokens |-> default_params.max_tokens,
                  top_p |-> default_params.top_p,
                  extended_thinking |-> default_params.extended_thinking]
    /\ pending = NoEvent
    /\ trigger = NoEvent
    /\ pc = "render"
    /\ outstanding = <<>>
    /\ notice = "none"
    /\ files = <<>>
    /\ now = 0
    /\ cycle_base = 0
    /\ artifacts = <<>>

NextExtract == Render

SpecExtract == InitExtract /\ [][NextExtract]_vars

----------------------------------------------------------------------------
(* Fairness: the script thread, once it can take a step, takes it, however *)
(* often UI events pre-empt it in between; a completion call returns or    *)
(* raises.  The browser is under no obligation to send events.             *)

ScriptFairness ==
    /\ SF_vars(ScriptStart)
    /\ SF_vars(Interrupt)
    /\ SF_vars(Sidebar)
    /\ SF_vars(SaveButton)
    /\ SF_vars(ClearButton)
    /\ SF_vars(ClearRerun)
    /\ SF_vars(Render)
    /\ SF_vars(ChatInput)
    /\ SF_vars(SetLoading)
    /\ SF_vars(SubmitRerun)
    /\ SF_vars(Main)
    /\ SF_vars(ExceptHandler)
    /\ WF_vars(CompletionSucceeded \/ CompletionFailed)

\* The session machine with the sidebar left alone after the key is entered:
\* the events that queue a rerun are the key edit, Clear Chat and the chat input.
NextLive ==
    \/ EditApiKey
    \/ PressClear
    \/ SubmitChat
    \/ ScriptStart
    \/ Interrupt
    \/ Sidebar
    \/ SaveButton
    \/ ClearButton
    \/ ClearRerun
    \/ Render
    \/ ChatInput
    \/ SetLoading
    \/ SubmitRerun
    \/ Main
    \/ CompletionSucceeded
    \/ CompletionFailed
    \/ ExceptHandler

FairSpec == Init /\ [][NextLive]_vars /\ ScriptFairness

----------------------------------------------------------------------------
(* Claims *)

LastTurn(ms) == ms[Len(ms)]

AppendsUserTurn ==
    /\ Len(messages') = Len(messages) + 1
    /\ LastTurn(messages').role = "user"

\* C1: while is_loading is true (from the submit that set it until
\* process_response resets it) no step appends a user Turn to messages.
C1_NoSubmitWhileLoading == [][is_loading => ~AppendsUserTurn]_vars

\* C2: at most one completion request is outstanding, a request is outstanding
\* only while is_loading is true, and the submit handler never sets is_loading
\* to true when it is already true (AwaitingResponse is not re-entered).
C2_SingleOutstanding ==
    [][/\ Len(outstanding') <= 1
       /\ (outstanding' # <<>> => is_loading')
       /\ ((pc = "submit_echo" /\ pc' = "submit_rerun") => ~is_loading)]_vars

\* C3 as stated: a cycle that ends in completionSucceeded leaves messages 2
\* longer than before its submit, and a cycle that ends in completionFailed
\* leaves it 0 longer.
C3_CycleGrowthAsStated ==
    [][/\ ((pc = "calling" /\ pc' = "idle") => Len(messages') = cycle_base + 2)
       /\ ((pc = "calling" /\ pc' = "except") => Len(messages') = cycle_base)]_vars

\* C3 as amended: an accepted submit appends exactly one user Turn, a
\* completionSucceeded exactly one assistant Turn, and a completionFailed
\* (the raise and the except block) appends and removes nothing; so a cycle in
\* which messages still ends with the submit's Turn grows it by 2 when it
\* succeeds and by 1, the user Turn, when it fails.
C3_CycleGrowth ==
    [][/\ ((pc = "chat_input" /\ pc' = "submit_echo") =>
              messages' = Append(messages, Turn("user", trigger.prompt)))
       /\ ((pc = "calling" /\ pc' = "idle") =>
              /\ Len(messages') = Len(messages) + 1
              /\ SubSeq(messages', 1, Len(messages)) = messages
              /\ LastTurn(messages').role = "assistant"
              /\ (Len(messages) = cycle_base + 1 => Len(messages') = cycle_base + 2))
       /\ ((pc = "calling" /\ pc' = "except") =>
              /\ messages' = messages
              /\ (Len(messages) = cycle_base + 1 => Len(messages') = cycle_base + 1))
       /\ ((pc = "except" /\ pc' = "idle") => messages' = messages)]_vars

C3_Witness ==
    /\ pc = "idle"
    /\ notice = "api_error"
    /\ Len(messages) = 3
    /\ messages[1].role = "user"
    /\ messages[2].role = "assistant"
    /\ messages[3].role = "user"
    /\ cycle_base = 2

\* C4: when the completion call has raised, process_response is left with
\* is_loading false, no Turn appended, and the submit's user Turn still last.
C4_FailureReturnsToIdle ==
    [][(pc = "except" /\ pc' # "except") =>
          /\ ~is_loading'
          /\ messages' = messages
          /\ messages' # <<>>
          /\ LastTurn(messages').role = "user"]_vars

\* C5: a submit handled in Idle with an empty api_key changes no session
\* state -- no Turn, is_loading still false -- signals the missing-key error,
\* and the rest of that run issues no completion request.
C5_MissingCredential ==
    [][/\ (/\ pc = "chat_input"
           /\ trigger.kind = "chat"
           /\ trigger.prompt # <<>>
           /\ api_key = ""
           /\ ~is_loading)
          => /\ session_state' = session_state
             /\ outstanding' = <<>>
             /\ (pc' # pc => (pc' = "main" /\ notice' = "need_key") \/ pc' = "sidebar")
       /\ (pc = "main" /\ notice = "need_key" /\ ~is_loading)
          => /\ session_state' = session_state
             /\ outstanding' = <<>>
             /\ pc' \in {"main", "idle"}]_vars

C5_Witness ==
    /\ pc = "idle"
    /\ notice = "need_key"
    /\ trigger.kind = "chat"
    /\ api_key = ""
    /\ ~is_loading
    /\ messages = <<>>
    /\ outstanding = <<>>

\* C6: whenever is_loading is true it eventually becomes false again.
C6_LoadingResolves == is_loading ~> ~is_loading

\* C7: the Clear Chat handler, and the rerun it asks for, leave messages empty
\* and leave parameters and api_key as they were.
C7_ClearFrame ==
    [][/\ ((pc = "clear_button" /\ pc' = "clear_rerun") =>
              /\ messages' = <<>>
              /\ parameters' = parameters
              /\ api_key' = api_key)
       /\ (pc = "clear_rerun" =>
              /\ messages' = <<>>
              /\ parameters' = parameters
              /\ api_key' = api_key)]_vars

C7_Witness ==
    /\ pc = "clear_rerun"
    /\ messages = <<>>
    /\ cycle_base > 0
    /\ parameters # default_params
    /\ api_key # ""

\* C8: a submit whose text is blank (empty or only whitespace) appends no
\* Turn and does not set is_loading.
C8_BlankIgnored ==
    [][(pc = "chat_input" /\ trigger.kind = "chat" /\ IsBlank(trigger.prompt)) =>
          /\ messages' = messages
          /\ is_loading' = is_loading
          /\ pc' # "submit_echo"]_vars

\* C9: every completion request carries model, temperature, max_tokens and
\* top_p equal to the session Parameters, the fixed system prompt, and the
\* full Turn sequence as {role, content} pairs.
C9_RequestCarriesParameters ==
    \A i \in 1..Len(outstanding) :
        LET p == outstanding[i].params IN
        /\ {"model", "temperature", "max_tokens", "top_p", "system", "messages"}
              \subseteq DOMAIN p
        /\ p.model = parameters.model
        /\ p.temperature = parameters.temperature
        /\ p.max_tokens = parameters.max_tokens
        /\ p.top_p = parameters.top_p
        /\ p.system = system_prompt
        /\ p.messages = messages

\* C10: a completion request has the extended_thinking field exactly when the
\* session Parameters have extended_thinking true, and then it is true.
C10_ExtendedThinkingField ==
    \A i \in 1..Len(outstanding) :
        LET p == outstanding[i].params IN
        /\ ("extended_thinking" \in DOMAIN p) <=> parameters.extended_thinking
        /\ ("extended_thinking" \in DOMAIN p => p.extended_thinking = TRUE)

C10_Witness ==
    /\ outstanding # <<>>
    /\ parameters.extended_thinking
    /\ "extended_thinking" \in DOMAIN outstanding[1].params

\* C11 as stated: every Save Chat History writes a file name no earlier export
\* of the session wrote, and leaves the earlier files as they were.
C11_ExportNeverOverwrites ==
    [][(pc = "save_button" /\ trigger.kind = "save" /\ pc' = "clear_button") =>
          /\ DOMAIN files' # DOMAIN files
          /\ \A n \in DOMAIN files : files'[n] = files[n]]_vars

\* C12: the content an export writes is exactly the ordered {role, content}
\* records of messages -- a function of the Turn sequence alone, so sessions
\* with the same messages and different api_key values write the same content.
C12_ExportContentIsTurns ==
    [][(pc = "save_button" /\ trigger.kind = "save" /\ pc' = "clear_button") =>
          LET written == files'[Timestamp(now)] IN
          /\ Len(written) = Len(messages)
          /\ \A i \in 1..Len(messages) :
                /\ DOMAIN written[i] = {"role", "content"}
                /\ written[i].role = messages[i].role
                /\ written[i].content = messages[i].content]_vars

C12_Witness ==
    /\ pc = "clear_button"
    /\ trigger.kind = "save"
    /\ notice = "saved"
    /\ api_key = "sk"
    /\ Len(messages) >= 2
    /\ Timestamp(now) \in DOMAIN files
    /\ files[Timestamp(now)] = messages

\* ---- the extractor (SpecExtract) ----

RenderStep == pc = "render" /\ pc' = "chat_input"

\* the text with its leading and trailing whitespace removed
Trim(text) ==
    LET ink == {i \in 1..Len(text) : text[i] \notin Whitespace}
    IN  IF ink = {} THEN <<>>
        ELSE SubSeq(text, CHOOSE i \in ink : \A j \in ink : i <= j,
                          CHOOSE i \in ink : \A j \in ink : j <= i)

\* the number of triple-backtick markers of a text, counted from the left
RECURSIVE CountMarkers(_, _)
CountMarkers(text, i) ==
    IF i + 2 > Len(text) THEN 0
    ELSE IF \A d \in 0..2 : text[i + d] = Backtick
         THEN 1 + CountMarkers(text, i + 3)
         ELSE CountMarkers(text, i + 1)

\* C13 as stated: for every language of Languages and every code with no
\* triple backtick, the fence built from them yields exactly one block, with
\* that language and the trimmed code.
C13_FenceRoundTripAsStated ==
    [][(RenderStep /\ sample.built /\ sample.language \in Languages) =>
          artifacts'[1] = <<[language |-> sample.language, code |-> Trim(sample.code)]>>]_vars

\* C13 amended: the same, for the codes that do not end with a backtick.
C13_FenceRoundTrip ==
    [][(/\ RenderStep
        /\ sample.built
        /\ sample.language \in Languages
        /\ (sample.code = <<>> \/ sample.code[Len(sample.code)] # Backtick)) =>
          artifacts'[1] = <<[language |-> sample.language, code |-> Trim(sample.code)]>>]_vars

C13_Witness ==
    /\ pc = "chat_input"
    /\ sample.built
    /\ sample.language = <<"b", "a", "t", "c", "h">>
    /\ sample.code = <<"\n", "a", " ">>
    /\ artifacts = <<(<<[language |-> <<"b", "a", "t", "c", "h">>, code |-> <<"a">>]>>)>>

\* C14: a fence whose tag holds a non-word character still yields a block,
\* with the empty language and the trimmed body.
C14_MalformedTagIsAbsent ==
    [][(RenderStep /\ sample.built /\ sample.language \in MalformedTags) =>
          artifacts'[1] = <<[language |-> <<>>, code |-> Trim(sample.code)]>>]_vars

\* C15: an opening with no closing marker after it yields no block, and the
\* blocks of a text are at most half as many as its triple-backtick markers.
C15_BlocksArePaired ==
    [][RenderStep =>
          \A i \in 1..Len(messages) :
             /\ 2 * Len(artifacts'[i]) <= CountMarkers(messages[i].content, 1)
             /\ CountMarkers(messages[i].content, 1) = 1 => artifacts'[i] = <<>>]_vars

C15_Witness ==
    /\ pc = "chat_input"
    /\ messages[1].content = Fence \o <<"a", "\n", "a", "\n">>
    /\ artifacts = << <<>> >>

\* C16: a text with no three backticks in a row yields the empty list.
C16_NoMarkerNoBlock ==
    [][RenderStep =>
          \A i \in 1..Len(messages) :
             ~HasTriple(messages[i].content) => artifacts'[i] = <<>>]_vars

C16_Witness ==
    /\ pc = "chat_input"
    /\ messages[1].content = <<Backtick, Backtick, "a", "\n", Backtick, Backtick>>
    /\ artifacts = << <<>> >>

\* ---- the conversation store, continued (Spec) ----

IsPrefix(a, b) == Len(a) <= Len(b) /\ \A i \in 1..Len(a) : b[i] = a[i]

ClearStep == pc = "clear_button" /\ trigger.kind = "clear" /\ pc' = "clear_rerun"

\* C17: every step other than the Clear Chat handler leaves messages as a
\* prefix of the new messages.
C17_AppendOnlyBetweenClears ==
    [][~ClearStep => IsPrefix(messages, messages')]_vars

C17_Witness ==
    /\ pc = "chat_input"
    /\ trigger.kind = "widget"
    /\ Len(messages) = 2
    /\ messages[1].role = "user"
    /\ messages[2].role = "assistant"
    /\ Len(artifacts) = 2

\* C18: every completion request holds a non-empty Turn sequence that ends
\* with a user Turn, and every assistant Turn of messages comes directly
\* after a user Turn.
C18_RequestEndsWithUserTurn ==
    /\ \A i \in 1..Len(outstanding) :
          LET ms == outstanding[i].params.messages IN
          ms # <<>> /\ LastTurn(ms).role = "user"
    /\ \A i \in 1..Len(messages) :
          messages[i].role = "assistant" => (i > 1 /\ messages[i - 1].role = "user")

\* C19: every completion request is issued with a non-empty api_key.
C19_RequestHasCredential ==
    \A i \in 1..Len(outstanding) : outstanding[i].api_key # ""

RunStart == ScriptStart \/ Interrupt \/ ClearRerun \/ SubmitRerun

\* C20: the start of a run, where initialize_session_state is called, changes
\* none of messages, api_key, parameters and is_loading of a session that has
\* them.
C20_InitializeKeepsSession ==
    [][(RunStart /\ DOMAIN session_state = SessionKeys) =>
          /\ messages' = messages
          /\ api_key' = api_key
          /\ parameters' = parameters
          /\ is_loading' = is_loading]_vars

C20_Witness ==
    /\ pc = "sidebar"
    /\ trigger = NoEvent
    /\ messages # <<>>
    /\ api_key # ""
    /\ parameters # default_params
    /\ is_loading

====
